---- MODULE Spec2Model ----
(***************************************************************************)
(* hacCare: the record scanner (main.py, spreadsheet index) and the JSON   *)
(* patient-record dashboard (streamlit_app.py).                            *)
(*                                                                         *)
(* A Python string is a sequence of one-character strings, so that strip,  *)
(* lower, replace, split, int and zfill are computed character by          *)
(* character as Python computes them.                                      *)
(***************************************************************************)
EXTENDS Integers, Sequences, FiniteSets, TLC

VARIABLES
  \* the file system shared by both programs
  usersFile,      \* USERS_FILE: NoFile or its JSON object
  disk,           \* path -> text of the file, for every file that exists
  \* streamlit_app.py: module state and st.session_state
  users,          \* users = load_users()
  authenticated,
  current_user,
  open_rec,
  menu,           \* state of the "menu" radio widget, "none" while not rendered
  screen,         \* what the last script run rendered
  rerunWorks,     \* whether st.experimental_rerun exists in the installed build
  \* observations of the last operations
  origFile,       \* USERS_FILE as it was before the first load
  loads,          \* number of load_users calls so far (2 = two or more)
  lastLoad,       \* the last load_users call
  lastVerify,     \* the verify_password call of the last run, if it made one
  last,           \* the Save Record / Delete / Open press of the last run, if any
  saves,          \* path -> Save Record presses since the file last did not exist
  issued,         \* the ids the auto ID code has generated so far (kept by SpecIds)
  \* main.py
  xlsx,           \* EXCEL_FILE: absent, or its rows (the header row first)
  records,        \* records = load_records(), number -> path
  pcMain,         \* "init" before line 171 has run, then "ready"
  lastOpen,       \* the open_record call of the last event, if it was one
  appended,       \* the triples handed to save_record_to_excel so far, in order
  \* two callers of save_record_to_excel
  wb,             \* caller -> the workbook it holds in memory
  pcR,            \* caller -> "idle", "loaded", "appended", "saved"
  arg,            \* caller -> the triple it appends
  seen,           \* caller -> number of saves done when it loaded the file
  saveOrder       \* the callers in the order of their wb.save


-----------------------------------------------------------------------------
(* Python string primitives *)

Digits == <<"0", "1", "2", "3", "4", "5", "6", "7", "8", "9">>

IsDigit(c) == \E i \in 1..Len(Digits) : Digits[i] = c

DigitVal(c) == (CHOOSE i \in 1..Len(Digits) : Digits[i] = c) - 1

LowerChar(c) ==
  CASE c = "A" -> "a"
    [] c = "B" -> "b"
    [] c = "D" -> "d"
    [] c = "I" -> "i"
    [] c = "M" -> "m"
    [] c = "N" -> "n"
    [] c = "O" -> "o"
    [] OTHER -> c

Lower(s) == [i \in 1..Len(s) |-> LowerChar(s[i])]

IsSpace(c) == c = " "

RECURSIVE LStrip(_)
LStrip(s) == IF s # <<>> /\ IsSpace(Head(s)) THEN LStrip(Tail(s)) ELSE s

RECURSIVE RStrip(_)
RStrip(s) ==
  IF s # <<>> /\ IsSpace(s[Len(s)]) THEN RStrip(SubSeq(s, 1, Len(s) - 1)) ELSE s

Strip(s) == RStrip(LStrip(s))

StartsWith(s, p) == Len(s) >= Len(p) /\ SubSeq(s, 1, Len(p)) = p

\* s.replace(p, ""): every non-overlapping occurrence of p, left to right
RECURSIVE Remove(_, _)
Remove(s, p) ==
  IF s = <<>> THEN <<>>
  ELSE IF StartsWith(s, p) THEN Remove(SubSeq(s, Len(p) + 1, Len(s)), p)
  ELSE <<Head(s)>> \o Remove(Tail(s), p)

\* s.split(c): the pieces between the occurrences of the character c
RECURSIVE Split(_, _)
Split(s, c) ==
  IF \A i \in 1..Len(s) : s[i] # c THEN <<s>>
  ELSE LET k == CHOOSE i \in 1..Len(s) : s[i] = c /\ \A j \in 1..(i - 1) : s[j] # c
       IN <<SubSeq(s, 1, k - 1)>> \o Split(SubSeq(s, k + 1, Len(s)), c)

\* int(s) accepts surrounding whitespace, then digits with single underscores
\* between digits; anything else raises ValueError (no sign character occurs
\* in the alphabet of the model)
IntOk(s) ==
  LET t == Strip(s)
  IN /\ t # <<>>
     /\ \A i \in 1..Len(t) : IsDigit(t[i]) \/ t[i] = "_"
     /\ IsDigit(t[1]) /\ IsDigit(t[Len(t)])
     /\ \A i \in 1..(Len(t) - 1) : ~(t[i] = "_" /\ t[i + 1] = "_")

RECURSIVE DigitsVal(_)
DigitsVal(t) ==
  IF t = <<>> THEN 0
  ELSE IF t[Len(t)] = "_" THEN DigitsVal(SubSeq(t, 1, Len(t) - 1))
  ELSE 10 * DigitsVal(SubSeq(t, 1, Len(t) - 1)) + DigitVal(t[Len(t)])

IntVal(s) == DigitsVal(Strip(s))

\* str(n) for n >= 0
RECURSIVE Str(_)
Str(n) == IF n < 10 THEN <<Digits[n + 1]>> ELSE Str(n \div 10) \o <<Digits[(n % 10) + 1]>>

RECURSIVE ZFill(_, _)
ZFill(s, w) == IF Len(s) >= w THEN s ELSE ZFill(<<"0">> \o s, w)

Max(S) == CHOOSE x \in S : \A y \in S : y <= x

\* os.path.join(a, b) for a relative b without separators
PathJoin(a, b) == IF a = <<>> THEN b ELSE a \o <<"/">> \o b

-----------------------------------------------------------------------------
(* Credentials: streamlit_app.py, AUTHENTICATION SETUP *)

\* A password string is the text typed or stored, hashed depth times: depth 0
\* is the text itself, depth > 0 a hexdigest (an injective digest).
Text(chars) == [depth |-> 0, chars |-> chars]

DigestLen == 64

hash_password(pw) == [depth |-> pw.depth + 1, chars |-> pw.chars]

\* len(pw) of a stored password
PyLen(pw) == IF pw.depth > 0 THEN DigestLen ELSE Len(pw.chars)

sAdmin == <<"a", "d", "m", "i", "n">>
sHaccare == <<"h", "a", "c", "c", "a", "r", "e">>

\* USERS_FILE: absent, or a JSON object read as the ordered list of its
\* items; an item is {"password": pw} (isdict) or the bare value pw
NoFile == [exists |-> FALSE, data |-> <<>>]

SeedData == << [user |-> sAdmin, isdict |-> TRUE, password |-> hash_password(Text(sHaccare))] >>

\* mutant of NormalizeEntry: the length test of line 41 is dropped
NormalizeEntry_always(e) ==
  [user |-> e.user, isdict |-> TRUE, password |-> hash_password(e.password)]

\* lines 37-43 on one item: str(info) of a bare string is the string
NormalizeEntry(e) ==
  [user |-> e.user, isdict |-> TRUE,
   password |-> IF PyLen(e.password) # DigestLen THEN hash_password(e.password)
                ELSE e.password]

EntryChanged(e) == ~e.isdict \/ PyLen(e.password) # DigestLen

\* d[k] = v on an insertion-ordered dict
DictPut(d, e) ==
  IF \E i \in 1..Len(d) : d[i].user = e.user
  THEN [i \in 1..Len(d) |-> IF d[i].user = e.user THEN e ELSE d[i]]
  ELSE Append(d, e)

\* {u.lower(): info for u, info in data.items()}
RECURSIVE LowerKeys(_)
LowerKeys(data) ==
  IF data = <<>> THEN <<>>
  ELSE LET e == data[Len(data)]
       IN DictPut(LowerKeys(SubSeq(data, 1, Len(data) - 1)),
                  [user |-> Lower(e.user), isdict |-> e.isdict, password |-> e.password])

load_users(file) ==
  LET data0 == IF file.exists THEN file.data ELSE SeedData
      changed == \E i \in 1..Len(data0) : EntryChanged(data0[i])
      data == [i \in 1..Len(data0) |-> NormalizeEntry(data0[i])]
  IN [file |-> [exists |-> TRUE, data |-> IF changed THEN data ELSE data0],
      users |-> LowerKeys(data),
      seeded |-> ~file.exists,
      wrote |-> changed]

DictGet(d, key) == {d[i] : i \in {j \in 1..Len(d) : d[j].user = key}}

\* mutant of verify_password: the name is looked up as typed
verify_password_cs(usrs, user, pw) ==
  \E rec \in DictGet(usrs, Strip(user)) :
     rec.isdict /\ rec.password = hash_password(pw)

verify_password(usrs, user, pw) ==
  \E rec \in DictGet(usrs, Lower(Strip(user))) :
     rec.isdict /\ rec.password = hash_password(pw)

-----------------------------------------------------------------------------
(* JSON text: json.dump and json.load, streamlit_app.py lines 95-101 *)

\* The text of a file is the sequence of its JSON tokens.
Tok(t, s, n) == [t |-> t, s |-> s, n |-> n]
TLB == Tok("{", "", 0)
TRB == Tok("}", "", 0)
TLS == Tok("[", "", 0)
TRS == Tok("]", "", 0)
TQuote == Tok("quote", "", 0)
TKey(k) == Tok("key", k, 0)
TStr(x) == Tok("str", x, 0)
TInt(n) == Tok("int", "", n)
TFloat(n) == Tok("float", "", n)
TIso(n) == Tok("iso", "", n)
TChr(c) == Tok("chr", c, 0)

\* a string held as characters: "..." with one token per character
DumpChars(x) == <<TQuote>> \o [i \in 1..Len(x) |-> TChr(x[i])] \o <<TQuote>>

\* one Vitals entry, keys in insertion order (lines 223-229)
DumpReading(r) ==
  <<TLB, TKey("Systolic"), TInt(r["Systolic"]), TKey("Diastolic"), TInt(r["Diastolic"]),
    TKey("Pulse"), TInt(r["Pulse"]), TKey("Temperature"), TFloat(r["Temperature"]),
    TKey("DateTime"), TIso(r["DateTime"]), TRB>>

RECURSIVE DumpVitals(_)
DumpVitals(v) == IF v = <<>> THEN <<>> ELSE DumpReading(Head(v)) \o DumpVitals(Tail(v))

\* json.dump of a patient document: the keys it has, in insertion order
json_dump(doc) ==
  <<TLB>>
  \o (IF "Patient Name" \in DOMAIN doc
      THEN <<TKey("Patient Name"), TStr(doc["Patient Name"])>> ELSE <<>>)
  \o (IF "Patient ID" \in DOMAIN doc
      THEN <<TKey("Patient ID")>> \o DumpChars(doc["Patient ID"]) ELSE <<>>)
  \o (IF "Vitals" \in DOMAIN doc
      THEN <<TKey("Vitals"), TLS>> \o DumpVitals(doc["Vitals"]) \o <<TRS>> ELSE <<>>)
  \o <<TRB>>

\* json.load: a recursive-descent reader; each reader returns the value and
\* the position after it
RECURSIVE ParseValue(_, _), ParseMembers(_, _, _), ParseItems(_, _, _), ParseChars(_, _, _)

ParseChars(toks, pos, acc) ==
  IF toks[pos].t = "quote" THEN [val |-> acc, pos |-> pos + 1]
  ELSE ParseChars(toks, pos + 1, Append(acc, toks[pos].s))

ParseItems(toks, pos, acc) ==
  IF toks[pos].t = "]" THEN [val |-> acc, pos |-> pos + 1]
  ELSE LET item == ParseValue(toks, pos)
       IN ParseItems(toks, item.pos, Append(acc, item.val))

ParseMembers(toks, pos, acc) ==
  IF toks[pos].t = "}" THEN [val |-> acc, pos |-> pos + 1]
  ELSE LET member == ParseValue(toks, pos + 1)
       IN ParseMembers(toks, member.pos, (toks[pos].s :> member.val) @@ acc)

ParseValue(toks, pos) ==
  CASE toks[pos].t = "{" -> ParseMembers(toks, pos + 1, <<>>)
    [] toks[pos].t = "[" -> ParseItems(toks, pos + 1, <<>>)
    [] toks[pos].t = "quote" -> ParseChars(toks, pos + 1, <<>>)
    [] toks[pos].t = "str" -> [val |-> toks[pos].s, pos |-> pos + 1]
    [] OTHER -> [val |-> toks[pos].n, pos |-> pos + 1]

json_load(toks) == ParseValue(toks, 1).val

EmptyDoc == <<>>

-----------------------------------------------------------------------------
(* Record store: streamlit_app.py, STORAGE *)

RECORDS_DIR == <<"R", "e", "c", "o", "r", "d", "s">>
RecordPrefix == <<"r", "e", "c", "o", "r", "d", "_">>
JsonSuffix == <<".", "j", "s", "o", "n">>

record_path(rid) == PathJoin(RECORDS_DIR, RecordPrefix \o rid \o JsonSuffix)

load_patient(d, rid) ==
  IF record_path(rid) \in DOMAIN d THEN json_load(d[record_path(rid)]) ELSE EmptyDoc

\* mutant of save_patient: an existing file is kept (mode "x" for "w")
save_patient_keep(d, rid, data) == d @@ (record_path(rid) :> json_dump(data))

\* open(path, "w") and json.dump: the new text replaces the file
save_patient(d, rid, data) == (record_path(rid) :> json_dump(data)) @@ d

\* os.listdir(RECORDS_DIR)
listdir(d) ==
  LET pre == RECORDS_DIR \o <<"/">>
  IN {SubSeq(q, Len(pre) + 1, Len(q)) : q \in {r \in DOMAIN d : StartsWith(r, pre)}}

\* [f for f in os.listdir(RECORDS_DIR) if f.startswith("record_")]
RecordFiles(d) == {f \in listdir(d) : StartsWith(f, RecordPrefix)}

\* os.remove(path) of an existing file
os_remove(d, path) == [q \in DOMAIN d \ {path} |-> d[q]]

\* dict.get(key, default)
DocGet(doc, key, default) == IF key \in DOMAIN doc THEN doc[key] ELSE default

\* line 205: f.replace("record_","").replace(".json","") for each record file
IdText(f) == Remove(Remove(f, RecordPrefix), JsonSuffix)

\* line 205 raises ValueError when int() rejects one of the texts
AutoIdOk(d) == \A f \in RecordFiles(d) : IntOk(IdText(f))

\* lines 205-206
AutoId(d) ==
  LET existing == {IntVal(IdText(f)) : f \in RecordFiles(d)}
  IN ZFill(Str(IF existing # {} THEN Max(existing) + 1 ELSE 1), 4)

\* line 240: rid = f.split("_")[1].split(".")[0]
ListedId(f) == Split(Split(f, "_")[2], ".")[1]

\* mutant of NewVitals: the stored readings are dropped
NewVitals_only(data, reading) == <<reading>>

\* lines 183 and 223-229: the stored readings and the new one
NewVitals(data, reading) == DocGet(data, "Vitals", <<>>) \o <<reading>>

\* lines 208-230: the record compiled from the form (the remaining Info
\* fields and the MAR tables are form values carried like Patient Name)
CompileRecord(name, rec_id, data, reading) ==
  ("Patient Name" :> name) @@ ("Patient ID" :> rec_id)
  @@ ("Vitals" :> NewVitals(data, reading))

-----------------------------------------------------------------------------
(* The dashboard: one action is one script run of streamlit_app.py, started
   by one event of the page; a run that ends in rerun() is followed at once
   by the run it asks for when the installed build has st.experimental_rerun,
   and goes on to the end of the script when it has not (lines 10-14). *)

webVars == <<usersFile, users, authenticated, current_user, open_rec, menu,
             screen, rerunWorks, origFile, loads, lastLoad, lastVerify, last, saves,
             issued>>

indexVars == <<xlsx, records, pcMain, lastOpen, appended>>

raceVars == <<wb, pcR, arg, seen, saveOrder>>

vars == <<disk, webVars, indexVars, raceVars>>

MaxVitals == 2
MaxFiles == 1
MaxAutoId == 2

Views == {"Home", "Edit", "List", "Docs", "Changelog"}
Names == {"Ann", "Bob"}
IdTexts == {<<"1">>, <<"1", ".", "5">>}
SysValues == {120, 135}
Times == {1}
LoginUsers == {<<"A", "d", "m", "i", "n">>, <<"e", "v", "e">>}
LoginPasswords == {Text(sHaccare), Text(<<"p", "w">>)}

NoneUser == <<"None">>
NoRec == <<>>

\* lines 185-188 and 223-229: the reading of the Vitals tab (the other
\* number inputs stay at their defaults)
Reading(sys_bp, now) ==
  [Systolic |-> sys_bp, Diastolic |-> 80, Pulse |-> 70, Temperature |-> 370,
   DateTime |-> now]

NoVerify == [user |-> <<>>, pw |-> Text(<<>>), result |-> FALSE, done |-> FALSE]

NoPress ==
  [kind |-> "none", entered |-> <<>>, id |-> <<>>, file |-> <<>>, ok |-> FALSE,
   doc |-> EmptyDoc, before |-> <<>>, reading |-> Reading(0, 0)]

\* what is stored for a path, read without the program's loader
StoredVitals(d, path) ==
  IF path \in DOMAIN d THEN DocGet(json_load(d[path]), "Vitals", <<>>) ELSE <<>>

\* line 49, once per script run; twice when the run is followed by a rerun
LoadUsersStep(twice) ==
  LET r1 == load_users(usersFile)
      r2 == load_users(r1.file)
  IN IF twice
     THEN /\ usersFile' = r2.file
          /\ users' = r2.users
          /\ lastLoad' = [before |-> r1.file, seeded |-> r2.seeded, wrote |-> r2.wrote]
          /\ loads' = 2
     ELSE /\ usersFile' = r1.file
          /\ users' = r1.users
          /\ lastLoad' = [before |-> usersFile, seeded |-> r1.seeded, wrote |-> r1.wrote]
          /\ loads' = IF loads < 2 THEN loads + 1 ELSE 2

\* lines 64-80 of a run that finds authenticated false: the login form, st.stop()
RenderLogin ==
  /\ screen' = "Login"
  /\ menu' = "none"

\* lines 104-109 and the view of the selected menu entry
DefaultMenu(orec) == IF orec # NoRec THEN "Edit" ELSE "Home"

MenuOf(m, orec) == IF m = "none" THEN DefaultMenu(orec) ELSE m

OpenRecAfterNav(m, orec) == IF orec # NoRec /\ MenuOf(m, orec) = "Edit" THEN NoRec ELSE orec

RenderApp(m, orec) ==
  /\ menu' = MenuOf(m, orec)
  /\ open_rec' = OpenRecAfterNav(m, orec)
  /\ screen' = MenuOf(m, orec)

\* a run started by no button: the first visit, an edit of a text field
Render ==
  /\ LoadUsersStep(FALSE)
  /\ IF authenticated THEN RenderApp(menu, open_rec)
     ELSE RenderLogin /\ UNCHANGED open_rec
  /\ lastVerify' = NoVerify
  /\ last' = NoPress
  /\ UNCHANGED <<indexVars, raceVars>>
  /\ UNCHANGED <<disk, authenticated, current_user, rerunWorks, origFile, saves, issued>>

\* lines 73-80: the Log In button
LogIn(username, password) ==
  /\ screen = "Login"
  /\ IF authenticated
     THEN \* the form is not rendered by this run, the press is dropped
          /\ LoadUsersStep(FALSE)
          /\ RenderApp(menu, open_rec)
          /\ lastVerify' = NoVerify
          /\ UNCHANGED <<authenticated, current_user>>
     ELSE LET ok == verify_password(load_users(usersFile).users, username, password)
          IN /\ lastVerify' = [user |-> username, pw |-> password, result |-> ok,
                               done |-> TRUE]
             /\ IF ok
                THEN /\ authenticated' = TRUE
                     /\ current_user' = username
                     /\ LoadUsersStep(rerunWorks)
                     /\ IF rerunWorks THEN RenderApp(menu, open_rec)
                        ELSE RenderLogin /\ UNCHANGED open_rec
                ELSE /\ LoadUsersStep(FALSE)
                     /\ RenderLogin
                     /\ UNCHANGED <<authenticated, current_user, open_rec>>
  /\ last' = NoPress
  /\ UNCHANGED <<indexVars, raceVars>>
  /\ UNCHANGED <<disk, rerunWorks, origFile, saves, issued>>

\* lines 83-86: the Logout button of the sidebar
Logout ==
  /\ screen \in Views
  /\ IF ~authenticated
     THEN /\ LoadUsersStep(FALSE)
          /\ RenderLogin
          /\ UNCHANGED <<authenticated, current_user, open_rec>>
     ELSE /\ authenticated' = FALSE
          /\ current_user' = NoneUser
          /\ LoadUsersStep(rerunWorks)
          /\ IF rerunWorks THEN RenderLogin /\ UNCHANGED open_rec
             ELSE RenderApp(menu, open_rec)
  /\ lastVerify' = NoVerify
  /\ last' = NoPress
  /\ UNCHANGED <<indexVars, raceVars>>
  /\ UNCHANGED <<disk, rerunWorks, origFile, saves, issued>>

\* lines 105-109: a choice in the Navigate radio
Navigate(m) ==
  /\ screen \in Views
  /\ LoadUsersStep(FALSE)
  /\ IF authenticated THEN RenderApp(m, open_rec)
     ELSE RenderLogin /\ UNCHANGED open_rec
  /\ lastVerify' = NoVerify
  /\ last' = NoPress
  /\ UNCHANGED <<indexVars, raceVars>>
  /\ UNCHANGED <<disk, authenticated, current_user, rerunWorks, origFile, saves, issued>>

\* lines 159-234: the Save Record button of the Add/Edit view, pressed with
\* rec_id in the Record # field
SaveRecord(rec_id, name, sys_bp, now) ==
  /\ screen = "Edit"
  /\ IF ~authenticated
     THEN /\ LoadUsersStep(FALSE)
          /\ RenderLogin
          /\ last' = NoPress
          /\ UNCHANGED <<disk, open_rec, saves>>
     ELSE LET data == IF rec_id # <<>> THEN load_patient(disk, rec_id) ELSE EmptyDoc
              raised == rec_id = <<>> /\ ~AutoIdOk(disk)
              id == IF rec_id = <<>> THEN AutoId(disk) ELSE rec_id
              reading == Reading(sys_bp, now)
              record == CompileRecord(name, id, data, reading)
              path == record_path(id)
          IN IF raised
             THEN \* ValueError at line 205 ends the run
                  /\ LoadUsersStep(FALSE)
                  /\ RenderApp(menu, open_rec)
                  /\ last' = [NoPress EXCEPT !.kind = "save", !.entered = rec_id]
                  /\ UNCHANGED <<disk, saves>>
             ELSE /\ path \notin DOMAIN disk => Cardinality(RecordFiles(disk)) < MaxFiles
                  /\ Len(StoredVitals(disk, path)) < MaxVitals
                  /\ rec_id = <<>> => IntVal(id) <= MaxAutoId
                  /\ LoadUsersStep(rerunWorks)
                  /\ disk' = save_patient(disk, id, record)
                  /\ menu' = menu
                  /\ screen' = "Edit"
                  /\ open_rec' = IF rerunWorks THEN NoRec ELSE id
                  /\ saves' = (path :> (IF path \in DOMAIN disk THEN saves[path] + 1 ELSE 1))
                              @@ saves
                  /\ last' = [kind |-> "save", entered |-> rec_id, id |-> id,
                              file |-> <<>>, ok |-> TRUE, doc |-> record,
                              before |-> StoredVitals(disk, path), reading |-> reading]
  /\ lastVerify' = NoVerify
  /\ UNCHANGED <<indexVars, raceVars>>
  /\ UNCHANGED <<authenticated, current_user, rerunWorks, origFile>>

\* lines 239-246: the Open button of the row of record file f
OpenRow(f) ==
  /\ screen = "List"
  /\ f \in RecordFiles(disk)
  /\ IF ~authenticated
     THEN /\ LoadUsersStep(FALSE)
          /\ RenderLogin
          /\ last' = NoPress
          /\ UNCHANGED open_rec
     ELSE /\ LoadUsersStep(rerunWorks)
          /\ menu' = menu
          /\ screen' = "List"
          /\ open_rec' = ListedId(f)
          /\ last' = [NoPress EXCEPT !.kind = "open", !.file = f, !.id = ListedId(f),
                                     !.ok = TRUE]
  /\ lastVerify' = NoVerify
  /\ UNCHANGED <<indexVars, raceVars>>
  /\ UNCHANGED <<disk, authenticated, current_user, rerunWorks, origFile, saves, issued>>

\* lines 239-243 and 247-250: the Delete button of the row of record file f
DeleteRow(f) ==
  /\ screen = "List"
  /\ f \in RecordFiles(disk)
  /\ IF ~authenticated
     THEN /\ LoadUsersStep(FALSE)
          /\ RenderLogin
          /\ last' = NoPress
          /\ UNCHANGED <<disk, open_rec, saves, issued>>
     ELSE LET rid == ListedId(f)
              path == record_path(rid)
          IN IF path \notin DOMAIN disk
             THEN \* FileNotFoundError at line 248 ends the run
                  /\ LoadUsersStep(FALSE)
                  /\ RenderApp(menu, open_rec)
                  /\ last' = [NoPress EXCEPT !.kind = "delete", !.file = f, !.id = rid]
                  /\ UNCHANGED <<disk, saves, issued>>
             ELSE /\ LoadUsersStep(rerunWorks)
                  /\ RenderApp(menu, open_rec)
                  /\ disk' = os_remove(disk, path)
                  /\ saves' = [q \in DOMAIN disk \ {path} |-> saves[q]]
                  /\ UNCHANGED issued
                  /\ last' = [NoPress EXCEPT !.kind = "delete", !.file = f, !.id = rid,
                                             !.ok = TRUE]
  /\ lastVerify' = NoVerify
  /\ UNCHANGED <<indexVars, raceVars>>
  /\ UNCHANGED <<authenticated, current_user, rerunWorks, origFile>>

\* main.py before line 171 has run, with no EXCEL_FILE yet
Header == [number |-> <<"Number">>, type |-> "Type", file |-> <<"File">>]

NoBook == [exists |-> FALSE, rows |-> <<>>]

NoOpen == [done |-> FALSE, entry |-> <<>>, outcome |-> "none", before |-> <<>>]

IndexIdle ==
  /\ xlsx = NoBook
  /\ records = <<>>
  /\ pcMain = "init"
  /\ lastOpen = NoOpen
  /\ appended = <<>>

Callers == {1, 2}

RaceIdle ==
  /\ wb = [c \in Callers |-> <<>>]
  /\ pcR = [c \in Callers |-> "idle"]
  /\ arg = [c \in Callers |-> Header]
  /\ seen = [c \in Callers |-> 0]
  /\ saveOrder = <<>>

\* lines 56-61: the session of a browser that has not run the script yet
WebIdle ==
  /\ users = <<>>
  /\ authenticated = FALSE
  /\ current_user = NoneUser
  /\ open_rec = NoRec
  /\ menu = "none"
  /\ screen = "none"
  /\ origFile = usersFile
  /\ loads = 0
  /\ lastLoad = [before |-> NoFile, seeded |-> FALSE, wrote |-> FALSE]
  /\ lastVerify = NoVerify
  /\ last = NoPress
  /\ saves = <<>>
  /\ issued = {}

Init ==
  /\ usersFile = NoFile
  /\ disk = <<>>
  /\ rerunWorks \in BOOLEAN
  /\ WebIdle
  /\ IndexIdle
  /\ RaceIdle

Next ==
  \/ Render
  \/ \E u \in LoginUsers, p \in LoginPasswords : LogIn(u, p)
  \/ Logout
  \/ \E m \in Views : Navigate(m)
  \/ \E rec_id \in IdTexts \cup {<<>>}, name \in Names, sys_bp \in SysValues,
        now \in Times : SaveRecord(rec_id, name, sys_bp, now) /\ UNCHANGED issued
  \/ \E f \in RecordFiles(disk) : OpenRow(f)
  \/ \E f \in RecordFiles(disk) : DeleteRow(f)

Spec == Init /\ [][Next]_vars

-----------------------------------------------------------------------------
(* Claims about the dashboard, checked under Spec *)

\* the id a record file was saved under: record_path(SavedId(f)) is f
SavedId(f) == SubSeq(f, Len(RecordPrefix) + 1, Len(f) - Len(JsonSuffix))

Saved == last.kind = "save" /\ last.ok

\* C1: right after save_patient(id, doc), load_patient(id) returns a document
\* equal to doc, whether or not the id had a file, and whatever it held.
C1_RoundTrip == Saved => load_patient(disk, last.id) = last.doc

\* a save onto an id that already held a document with another name
C1_Witness ==
  /\ Saved
  /\ last.before # <<>>
  /\ last.doc["Patient Name"] = "Bob"
  /\ load_patient(disk, last.id)["Patient Name"] = "Bob"

\* C2: every stored Vitals list is as long as the number of Save Record
\* presses on its id since the id had no file, and a press leaves the
\* readings stored before it, in order, in front of the new reading.
C2_VitalsAppendOnly ==
  /\ \A path \in DOMAIN saves :
       path \in DOMAIN disk /\ Len(StoredVitals(disk, path)) = saves[path]
  /\ Saved => StoredVitals(disk, record_path(last.id)) = last.before \o <<last.reading>>

C2_Witness ==
  /\ Saved
  /\ saves[record_path(last.id)] = MaxVitals
  /\ Len(StoredVitals(disk, record_path(last.id))) = MaxVitals

\* C3: a Delete press on the row of a stored record makes load_patient of
\* its id return the empty document, takes the id out of the listing, and
\* leaves every other stored record as it was.
C3_DeleteRemovesRecord ==
  [][\A f \in RecordFiles(disk) :
       (authenticated /\ DeleteRow(f)) =>
          /\ load_patient(disk', SavedId(f)) = EmptyDoc
          /\ f \notin RecordFiles(disk')
          /\ \A g \in RecordFiles(disk) \ {f} :
               /\ g \in RecordFiles(disk')
               /\ load_patient(disk', SavedId(g)) = load_patient(disk, SavedId(g))]_vars

\* the id the claim gives for a storage directory
ClaimedNextId(d) ==
  LET nums == {IntVal(SavedId(f)) : f \in {g \in RecordFiles(d) : IntOk(SavedId(g))}}
  IN ZFill(Str(IF nums = {} THEN 1 ELSE Max(nums) + 1), 4)

\* C7: a Save Record press with an empty record number saves under "0001"
\* when the directory holds no record file and under max+1, zero-padded to
\* four digits, otherwise, whatever the directory holds.
C7_AutoId ==
  [][(authenticated /\ \E name \in Names, sys_bp \in SysValues, now \in Times :
                          SaveRecord(<<>>, name, sys_bp, now))
       => /\ last'.ok
          /\ last'.id = ClaimedNextId(disk)
          /\ record_path(last'.id) \in DOMAIN disk']_vars

\* C8: a view other than Login is on screen, and a record is loaded, saved
\* or deleted, only while authenticated is true; authenticated becomes true
\* only by a Log In press that verify_password accepted; Logout clears
\* authenticated and current_user and leads back to Login.
C8_AuthGate ==
  /\ screen \in Views => authenticated /\ current_user # NoneUser
  /\ last.kind # "none" => authenticated
  /\ lastVerify.done /\ ~lastVerify.result => ~authenticated

-----------------------------------------------------------------------------
(* The dashboard with the history of the ids that lines 204-206 generated *)

\* the generated ids after a Save Record press with rec_id in the Record # field
IssuedAfter(rec_id) ==
  IF rec_id = <<>> /\ last'.kind = "save" /\ last'.ok THEN issued \cup {last'.id} ELSE issued

NextIds ==
  \/ Render
  \/ \E u \in LoginUsers, p \in LoginPasswords : LogIn(u, p)
  \/ Logout
  \/ \E m \in Views : Navigate(m)
  \/ \E rec_id \in IdTexts \cup {<<>>}, name \in Names, sys_bp \in SysValues,
        now \in Times : SaveRecord(rec_id, name, sys_bp, now)
                           /\ issued' = IssuedAfter(rec_id)
  \/ \E f \in RecordFiles(disk) : OpenRow(f)
  \/ \E f \in RecordFiles(disk) : DeleteRow(f)

SpecIds == Init /\ [][NextIds]_vars

\* C11: over Save Record presses with empty or entered record numbers and
\* Delete presses, every id the auto ID code generates is numerically
\* greater than every id it generated before, so no generated id, one freed
\* by a Delete included, is issued a second time.
C11_AutoIdsOnlyGrow ==
  [][(authenticated /\ \E name \in Names, sys_bp \in SysValues, now \in Times :
                          SaveRecord(<<>>, name, sys_bp, now))
       => (last'.ok => \A g \in issued : IntVal(last'.id) > IntVal(g))]_vars

\* C12: for every record file stored by save_patient and not deleted, the
\* id the All Records view extracts from the file name is the id the file
\* was saved under, and an Open or Delete press on a row acts on that id.
C12_ListingRecoversId ==
  /\ \A f \in RecordFiles(disk) : ListedId(f) = SavedId(f)
  /\ last.kind \in {"open", "delete"} => last.id = SavedId(last.file)

-----------------------------------------------------------------------------
(* The login page over the credential files an installation can hold *)

sBob == <<"B", "o", "b">>
sPw == <<"p", "w">>
x64 == [i \in 1..DigestLen |-> "x"]

\* what a hand-written or earlier USERS_FILE stores for a user: plaintext,
\* a digest, or a plaintext that happens to be 64 characters long
StoredPasswords == {Text(sHaccare), Text(sPw), hash_password(Text(sPw)), Text(x64)}

EntriesOf(u) ==
  {[user |-> u, isdict |-> b, password |-> pw] : b \in BOOLEAN, pw \in StoredPasswords}

\* one item per user name, user names differing in more than case
CredentialFiles ==
  {NoFile} \cup
  {[exists |-> TRUE, data |-> d] :
     d \in {<<>>} \cup {<<a>> : a \in EntriesOf(sAdmin) \cup EntriesOf(sBob)}
           \cup {<<a, b>> : a \in EntriesOf(sAdmin), b \in EntriesOf(sBob)}
           \cup {<<b, a>> : a \in EntriesOf(sAdmin), b \in EntriesOf(sBob)}}

AuthUsers ==
  {<<"A", "d", "m", "i", "n">>, <<"A", "D", "M", "I", "N">>, <<" ", "a", "d", "m", "i", "n">>,
   sBob, <<"e", "v", "e">>}

AuthPasswords == {Text(sHaccare), Text(sPw), Text(x64)}

InitAuth ==
  /\ usersFile \in CredentialFiles
  /\ disk = <<>>
  /\ rerunWorks \in BOOLEAN
  /\ WebIdle
  /\ IndexIdle
  /\ RaceIdle

NextAuth ==
  \/ Render
  \/ \E u \in AuthUsers, p \in AuthPasswords : LogIn(u, p)
  \/ Logout

SpecAuth == InitAuth /\ [][NextAuth]_vars

\* C6 as stated: verify_password(user, pw) is true exactly when the loaded
\* store has an entry for the lower-cased user name whose digest is the
\* digest of pw, and Admin/haccare and ADMIN/haccare pass on a fresh store.
C6_VerifyLowerCased ==
  lastVerify.done =>
    /\ lastVerify.result <=>
         \E i \in 1..Len(users) :
            /\ users[i].user = Lower(lastVerify.user)
            /\ users[i].password = hash_password(lastVerify.pw)
    /\ (/\ origFile = NoFile
        /\ lastVerify.user \in {<<"A", "d", "m", "i", "n">>, <<"A", "D", "M", "I", "N">>}
        /\ lastVerify.pw = Text(sHaccare)) => lastVerify.result

\* C6 amended: verify_password(user, pw) is true exactly when the loaded
\* store has an entry for the user name with surrounding whitespace removed
\* and lower-cased whose digest is the digest of pw; unknown users and wrong
\* passwords give false; Admin/haccare and ADMIN/haccare pass on a fresh store.
C6_VerifyTrimmedLowerCased ==
  lastVerify.done =>
    /\ lastVerify.result <=>
         \E i \in 1..Len(users) :
            /\ users[i].user = Lower(Strip(lastVerify.user))
            /\ users[i].password = hash_password(lastVerify.pw)
    /\ (/\ origFile = NoFile
        /\ lastVerify.user \in {<<"A", "d", "m", "i", "n">>, <<"A", "D", "M", "I", "N">>}
        /\ lastVerify.pw = Text(sHaccare)) => lastVerify.result

C6_Witness ==
  /\ origFile = NoFile
  /\ lastVerify.done
  /\ lastVerify.user = <<"A", "D", "M", "I", "N">>
  /\ lastVerify.pw = Text(sHaccare)
  /\ lastVerify.result

\* an entry of the file as it was before the first load that holds a
\* password not of digest length
Legacy(o) == PyLen(o.password) # DigestLen

\* C9: load_users replaces every stored password not of digest length by its
\* digest and rewrites the file exactly when an entry changed; afterwards
\* every entry holds a password of digest length, a legacy user verifies with
\* the former plaintext, and a second load changes and writes nothing.
C9_Migration ==
  loads >= 1 =>
    LET was == IF lastLoad.before.exists THEN lastLoad.before.data ELSE SeedData
    IN /\ Len(usersFile.data) = Len(was)
       /\ \A i \in 1..Len(was) :
            /\ usersFile.data[i].user = was[i].user
            /\ usersFile.data[i].password =
                 IF Legacy(was[i]) THEN hash_password(was[i].password) ELSE was[i].password
            /\ PyLen(usersFile.data[i].password) = DigestLen
       /\ lastLoad.wrote <=> (lastLoad.before.exists /\ usersFile # lastLoad.before)
       /\ \A i \in 1..Len(origFile.data) :
            (/\ Legacy(origFile.data[i])
             /\ lastVerify.done
             /\ lastVerify.user = origFile.data[i].user
             /\ lastVerify.pw = origFile.data[i].password) => lastVerify.result
       /\ loads = 2 => ~lastLoad.wrote /\ ~lastLoad.seeded /\ lastLoad.before = usersFile

\* a legacy user has logged in with the plaintext after a second load
C9_Witness ==
  /\ loads = 2
  /\ lastVerify.done /\ lastVerify.result
  /\ lastVerify.user = sBob /\ lastVerify.pw = Text(sPw)
  /\ \E i \in 1..Len(origFile.data) :
       origFile.data[i] = [user |-> sBob, isdict |-> FALSE, password |-> Text(sPw)]

-----------------------------------------------------------------------------
(* The record scanner: main.py lines 40-183 (lines 185-268 repeat
   load_records, save_record_to_excel and open_record word for word) *)

MaxRows == 2

MEDS_DIR == <<"M", "e", "d", "s">>

\* FOLDERS.get(t, "")
FoldersGet(t) ==
  CASE t = "Record" -> RECORDS_DIR
    [] t = "Med" -> MEDS_DIR
    [] OTHER -> <<>>

NoneCell == <<"None">>

Row(number, record_type, filename) ==
  [number |-> number, type |-> record_type, file |-> filename]

\* lines 52-55: a new workbook with the header row
NewBook == [exists |-> TRUE, rows |-> <<Header>>]

\* mutant of BuildRecords: the first row of a number is kept
RECURSIVE BuildRecords_first(_)
BuildRecords_first(rows) ==
  IF rows = <<>> THEN <<>>
  ELSE LET r == rows[Len(rows)]
           rest == BuildRecords_first(SubSeq(rows, 1, Len(rows) - 1))
       IN IF r.number # NoneCell
          THEN rest @@ (r.number :> PathJoin(FoldersGet(r.type), r.file))
          ELSE rest

\* lines 58-63 over the data rows, in order: a later row of a number
\* overwrites the earlier one
RECURSIVE BuildRecords(_)
BuildRecords(rows) ==
  IF rows = <<>> THEN <<>>
  ELSE LET r == rows[Len(rows)]
           rest == BuildRecords(SubSeq(rows, 1, Len(rows) - 1))
       IN IF r.number # NoneCell
          THEN (r.number :> PathJoin(FoldersGet(r.type), r.file)) @@ rest
          ELSE rest

\* lines 49-64; iter_rows(min_row=2) leaves the header out
load_records(x) ==
  LET book == IF x.exists THEN x ELSE NewBook
  IN [book |-> book, records |-> BuildRecords(Tail(book.rows))]

\* line 67: the whole file is read into memory
load_workbook(x) == x.rows

\* mutant of ws_append: the row replaces the data rows
ws_append_fresh(rows, number, record_type, filename) ==
  <<rows[1], Row(number, record_type, filename)>>

\* line 69
ws_append(rows, number, record_type, filename) ==
  Append(rows, Row(number, record_type, filename))

\* line 70: the whole file is written
wb_save(rows) == [exists |-> TRUE, rows |-> rows]

\* lines 66-70
save_record_to_excel(x, number, record_type, filename) ==
  wb_save(ws_append(load_workbook(x), number, record_type, filename))

\* mutant of open_outcome: the os.path.exists test of line 76 is left out
open_outcome_unchecked(recs, d, number) ==
  IF number \in DOMAIN recs THEN "Found" ELSE "NotFound"

\* lines 74-84: which branch open_record takes
open_outcome(recs, d, number) ==
  IF number \in DOMAIN recs
  THEN IF recs[number] \in DOMAIN d THEN "Found" ELSE "FileMissing"
  ELSE "NotFound"

\* os.path.basename
Basename(path) == LET parts == Split(path, "/") IN parts[Len(parts)]

NumberTexts == {<<"7">>, <<"7", " ">>}
EntryTexts == {<<"7">>, <<"7", " ">>, <<"8">>}
TypeChoices == {"Record", "Med", "Other"}
UploadPaths == {<<>>, <<"d", "/">> \o RecordPrefix \o <<"7">> \o JsonSuffix}

HtmlText == <<TStr("html")>>
UploadText == <<TStr("upload")>>

\* line 171, each time the program is started
Start ==
  /\ xlsx' = load_records(xlsx).book
  /\ records' = load_records(xlsx).records
  /\ pcMain' = "ready"
  /\ lastOpen' = NoOpen
  /\ UNCHANGED <<disk, appended, webVars, raceVars>>

\* lines 72-85: Open Record with entry in the entry field
OpenRecord(entry) ==
  /\ pcMain = "ready"
  /\ lastOpen' = [done |-> TRUE, entry |-> entry,
                  outcome |-> open_outcome(records, disk, Strip(entry)),
                  before |-> records]
  /\ UNCHANGED <<disk, xlsx, records, pcMain, appended, webVars, raceVars>>

\* lines 87-165: Add New Record with the answers given to its dialogs
AddRecord(number, type_choice, choice, file_path) ==
  /\ pcMain = "ready"
  /\ lastOpen' = NoOpen
  /\ LET generate == type_choice = "Record" /\ choice
         filename == IF generate
                     THEN <<"p", "a", "t", "i", "e", "n", "t", "_">> \o RecordPrefix
                          \o number \o <<".", "h", "t", "m", "l">>
                     ELSE Basename(file_path)
         dest_path == PathJoin(FoldersGet(type_choice), filename)
     IN IF \/ number = <<>>
           \/ type_choice \notin {"Record", "Med"}
           \/ ~generate /\ file_path = <<>>
        THEN UNCHANGED <<disk, xlsx, records, appended>>
        ELSE /\ Len(xlsx.rows) - 1 < MaxRows
             /\ disk' = (dest_path :> (IF generate THEN HtmlText ELSE UploadText)) @@ disk
             /\ records' = (number :> dest_path) @@ records
             /\ xlsx' = save_record_to_excel(xlsx, number, type_choice, filename)
             /\ appended' = Append(appended, Row(number, type_choice, filename))
  /\ UNCHANGED <<pcMain, webVars, raceVars>>

\* streamlit_app.py lines 247-248 run by a dashboard on the same Records
\* folder: the Delete button of the row of record file f
RemoveByDashboard(f) ==
  /\ f \in RecordFiles(disk)
  /\ record_path(ListedId(f)) \in DOMAIN disk
  /\ disk' = os_remove(disk, record_path(ListedId(f)))
  /\ lastOpen' = NoOpen
  /\ UNCHANGED <<xlsx, records, pcMain, appended, webVars, raceVars>>

InitIndex ==
  /\ usersFile = NoFile
  /\ disk = <<>>
  /\ rerunWorks = TRUE
  /\ WebIdle
  /\ IndexIdle
  /\ RaceIdle

NextIndex ==
  \/ Start
  \/ \E entry \in EntryTexts : OpenRecord(entry)
  \/ \E number \in NumberTexts \cup {<<>>}, type_choice \in TypeChoices,
        choice \in BOOLEAN, file_path \in UploadPaths :
        AddRecord(number, type_choice, choice, file_path)
  \/ \E f \in RecordFiles(disk) : RemoveByDashboard(f)

SpecIndex == InitIndex /\ [][NextIndex]_vars

\* C4 as stated: every triple appended so far, over any sequence of appends,
\* is in the mapping a load_records() now returns: id -> folder/filename.
C4_EveryTripleMapped ==
  \A i \in 1..Len(appended) :
     LET t == appended[i]
         m == load_records(xlsx).records
     IN t.number \in DOMAIN m /\ m[t.number] = PathJoin(FoldersGet(t.type), t.file)

\* C4 amended: for every id, the mapping a load_records() now returns holds
\* id -> folder/filename of the last triple appended with that id (an
\* earlier triple with the same id is overwritten).
C4_LastTripleMapped ==
  \A i \in 1..Len(appended) :
     LET t == appended[i]
         m == load_records(xlsx).records
     IN (\A j \in (i + 1)..Len(appended) : appended[j].number # t.number)
          => t.number \in DOMAIN m /\ m[t.number] = PathJoin(FoldersGet(t.type), t.file)

\* two triples of one id with different files, and the later one is mapped
C4_Witness ==
  /\ Len(appended) = 2
  /\ appended[1].number = appended[2].number
  /\ appended[1].type # appended[2].type
  /\ load_records(xlsx).records[appended[2].number]
       = PathJoin(FoldersGet(appended[2].type), appended[2].file)

OpenOutcomeOf(n) ==
  /\ lastOpen.outcome \in {"NotFound", "FileMissing", "Found"}
  /\ lastOpen.outcome = "NotFound" <=> n \notin DOMAIN records
  /\ lastOpen.outcome = "FileMissing" <=>
       (n \in DOMAIN records /\ records[n] \notin DOMAIN disk)
  /\ lastOpen.outcome = "Found" <=> (n \in DOMAIN records /\ records[n] \in DOMAIN disk)
  /\ (\A i \in 1..Len(appended) : appended[i].number # n) => lastOpen.outcome = "NotFound"
  /\ records = lastOpen.before

\* C5 as stated: the outcome of open_record is NotFound, FileMissing or
\* Found according to whether the entered id is a key of the mapping and
\* its path exists, NotFound for an id never appended, the mapping unchanged.
C5_OutcomeOfEnteredId == lastOpen.done => OpenOutcomeOf(lastOpen.entry)

\* C5 amended: the same, for the entered id with surrounding whitespace
\* removed.
C5_OutcomeOfTrimmedId == lastOpen.done => OpenOutcomeOf(Strip(lastOpen.entry))

\* a mapped id whose file is gone
C5_Witness == lastOpen.done /\ lastOpen.outcome = "FileMissing"

-----------------------------------------------------------------------------
(* Two callers of save_record_to_excel (main.py lines 66-70) on one
   records.xlsx: each call is three steps, line 67, line 69 and line 70,
   and the steps of the two calls interleave freely *)

BaseRows == <<Header, Row(<<"5">>, "Med", <<"e">>)>>

RaceTriples ==
  {Row(<<"7">>, "Record", <<"a">>), Row(<<"7">>, "Med", <<"b">>),
   Row(<<"8">>, "Record", <<"c">>)}

\* line 67: caller c reads the whole file; t is the triple of its call
RaceLoad(c, t) ==
  /\ pcR[c] = "idle"
  /\ wb' = [wb EXCEPT ![c] = load_workbook(xlsx)]
  /\ arg' = [arg EXCEPT ![c] = t]
  /\ seen' = [seen EXCEPT ![c] = Len(saveOrder)]
  /\ pcR' = [pcR EXCEPT ![c] = "loaded"]
  /\ UNCHANGED <<disk, saveOrder, webVars, indexVars>>

\* line 69: the row is appended to the caller's copy
RaceAppend(c) ==
  /\ pcR[c] = "loaded"
  /\ wb' = [wb EXCEPT ![c] = ws_append(wb[c], arg[c].number, arg[c].type, arg[c].file)]
  /\ pcR' = [pcR EXCEPT ![c] = "appended"]
  /\ UNCHANGED <<disk, arg, seen, saveOrder, webVars, indexVars>>

\* line 70: the caller's copy is written over the file
RaceSave(c) ==
  /\ pcR[c] = "appended"
  /\ xlsx' = wb_save(wb[c])
  /\ saveOrder' = Append(saveOrder, c)
  /\ pcR' = [pcR EXCEPT ![c] = "saved"]
  /\ UNCHANGED <<disk, wb, arg, seen, webVars, records, pcMain, lastOpen, appended>>

InitRace ==
  /\ usersFile = NoFile
  /\ disk = <<>>
  /\ rerunWorks = TRUE
  /\ WebIdle
  /\ xlsx = wb_save(BaseRows)
  /\ records = <<>>
  /\ pcMain = "init"
  /\ lastOpen = NoOpen
  /\ appended = <<>>
  /\ RaceIdle

NextRace ==
  \/ \E c \in Callers, t \in RaceTriples : RaceLoad(c, t)
  \/ \E c \in Callers : RaceAppend(c)
  \/ \E c \in Callers : RaceSave(c)

SpecRace == InitRace /\ [][NextRace]_vars

\* C10: once both callers have saved, the file holds the earlier rows and,
\* when the later saver read the file before the first save, the row of the
\* later saver only (the first saver's append is lost); when the later saver
\* read the file after the first save, the rows of both, in save order.
C10_LostUpdate ==
  Len(saveOrder) = 2 =>
    LET first == saveOrder[1]
        later == saveOrder[2]
    IN IF seen[later] = 0
       THEN xlsx.rows = BaseRows \o <<arg[later]>>
       ELSE xlsx.rows = BaseRows \o <<arg[first], arg[later]>>

\* both calls completed, both read before either wrote, and the row of the
\* first saver is nowhere in the file
C10_Witness ==
  /\ Len(saveOrder) = 2
  /\ seen[saveOrder[2]] = 0
  /\ pcR = [c \in Callers |-> "saved"]
  /\ \A i \in 1..Len(xlsx.rows) : xlsx.rows[i] # arg[saveOrder[1]]

====
